---- MODULE Spec2Model ----
(***************************************************************************)
(* SafeCaption: the POST /api/v1/validate request handler, its Access Gate *)
(* (validateApiKey, checkRateLimit, trackUsage) and the caption validator. *)
(* The billing endpoints (create-order, payment-success) and the signup    *)
(* trigger write the profiles the Access Gate reads.                       *)
(* The key-creation endpoint adds the key records the Access Gate looks up.*)
(*                                                                         *)
(* Strings are modelled as sequences of fragments ("Bearer ", "sk_", a key *)
(* body, a caption word or phrase), so that prefix stripping, prefix tests *)
(* and an equality lookup in the store are computed, not assumed.          *)
(* A regular expression with the global flag is modelled with its          *)
(* lastIndex, counted in caption fragments.                                *)
(* A key or a hashtag is the concatenation of its fragments; a caption is  *)
(* its fragments (words, phrases, runs of punctuation) separated by single *)
(* spaces, a " " fragment being further white space.                       *)
(***************************************************************************)
EXTENDS Integers, Sequences, FiniteSets, TLC

(* ------------------------------ bounds -------------------------------- *)

\* number of requests the model handles (they may overlap in time)
NumReq == 2

\* number of clock steps the model lets pass
MaxTicks == 2

\* number of store calls that may fail in one run
MaxFaults == 1

Reqs == 1..NumReq
Ticks == 0..MaxTicks

(* ------------------------- program constants -------------------------- *)

\* Date.now() - 60000: the trailing window of the rate check
WindowMs == 60000

\* milliseconds the model's clock advances per step: one window, so that a row is
\* on the window's edge one step after its insert and outside it after two
TickMs == WindowMs

\* profiles.api_calls_limit DEFAULT 100
DefaultCallsLimit == 100

ProLimit == 10000

EnterpriseLimit == 100000

\* penalties of the validator
HatePenalty == 30

SpamPenalty == 20

EmojiPenalty == 10

HashtagPenalty == 10

MisleadingPenalty == 25

MaxEmoji == 15

MaxCaptionHashtags == 10

MaxCaptionLength == 2200

(* ------------------------------ strings ------------------------------- *)

\* the absent header (headers.get gives null) and the empty string: both falsy
NoString == <<>>

Min(S) == CHOOSE x \in S : \A y \in S : x <= y

\* String.prototype.replace(tok, ''): removes the FIRST occurrence of tok only
ReplaceFirst(s, tok) ==
    LET idx == {i \in 1..Len(s) : s[i] = tok}
    IN  IF idx = {} THEN s
        ELSE SubSeq(s, 1, Min(idx) - 1) \o SubSeq(s, Min(idx) + 1, Len(s))

RECURSIVE TrimLeft(_)
TrimLeft(s) ==
    IF Len(s) > 0 /\ s[1] = " " THEN TrimLeft(Tail(s)) ELSE s

RECURSIVE TrimRight(_)
TrimRight(s) ==
    IF Len(s) > 0 /\ s[Len(s)] = " " THEN TrimRight(SubSeq(s, 1, Len(s) - 1)) ELSE s

\* String.prototype.trim()
Trim(s) == TrimRight(TrimLeft(s))

\* String.prototype.startsWith(tok)
StartsWith(s, tok) == Len(s) > 0 /\ s[1] = tok

\* const cleanKey = apiKey.replace('Bearer ', '').trim()
CleanKey(apiKey) == Trim(ReplaceFirst(apiKey, "Bearer "))

(* ------------------------------- store -------------------------------- *)

Users == {"u1"}

KeyIds == {"k1", "k2"}

\* subscription_tier: the CHECK admits free, pro, enterprise; the column is
\* nullable, and NULL passes a CHECK
TierValues == {"free", "pro", "enterprise", "null"}

\* the order ids the payment provider issues
OrderIds == {"o1"}

\* an order_id with no row in payment_orders
NoOrder ==
    [status |-> "none", user_id |-> "none", plan |-> "", billing_cycle |-> "",
     payment_id |-> "", signature |-> ""]

\* no billing endpoint called yet
NoBilling ==
    [endpoint |-> "none", user |-> "none", plan |-> "", orderId |-> "none", signature |-> "",
     status |-> 0]

\* the key-creation endpoint not called yet
NoKeyCall ==
    [token |-> "none", json |-> FALSE, name |-> "", user |-> "none", status |-> 0,
     key |-> <<>>, calls |-> <<"none", "none">>]

\* outcome of one call to the store client: a result, {data: null, error},
\* {data: null, error: null}, or a thrown exception
ReadOutcomes == {"ok", "error", "nodata", "throw"}

WriteOutcomes == {"ok", "error", "throw"}

VARIABLES
    supabaseConfigured,  \* supabase !== null
    profiles,            \* public.profiles
    api_keys,            \* public.api_keys
    usage_logs,          \* public.usage_logs: per key, rows per creation tick
    tick,                \* the clock
    lastIndex,           \* lastIndex of each regex of INAPPROPRIATE_PATTERNS
    faults,              \* store calls that have failed so far
    req,                 \* the requests in flight and answered
    payment_orders,      \* public.payment_orders, by order_id
    lastBilling,         \* the last call of a billing endpoint and its response
    lastKey              \* the last call of the key-creation endpoint and its response

\* the state the billing and key-creation endpoints write besides profiles and keys
billing == <<payment_orders, lastBilling, lastKey>>

vars == <<supabaseConfigured, profiles, api_keys, usage_logs, tick, lastIndex, faults, req,
          billing>>

Now == tick * TickMs

RECURSIVE SumRows(_, _)
SumRows(rows, T) ==
    IF T = {} THEN 0
    ELSE LET t == CHOOSE x \in T : TRUE
         IN  rows[t] + SumRows(rows, T \ {t})

\* .from('usage_logs').select('id').eq('api_key_id', id).gte('created_at', oneMinuteAgo)
RecentUsage(id) ==
    SumRows(usage_logs[id], {t \in Ticks : t * TickMs >= Now - WindowMs})

TotalRows(id) == SumRows(usage_logs[id], Ticks)

\* rateLimits[tier] || rateLimits.free
PerMinute(tier) ==
    CASE tier = "free" -> 10
      [] tier = "pro" -> 60
      [] tier = "enterprise" -> 1000
      [] OTHER -> 10

\* pricing_plans.api_calls_limit of a tier
PlanLimit(tier) ==
    CASE tier = "pro" -> ProLimit
      [] tier = "enterprise" -> EnterpriseLimit
      [] OTHER -> DefaultCallsLimit

(* --------------------------- heuristic rules -------------------------- *)

\* String.prototype.toLowerCase() and the i flag, on a fragment
Lower(tok) ==
    CASE tok = "HATE" -> "hate"
      [] tok = "Link in bio" -> "link in bio"
      [] tok = "Cure" -> "cure"
      [] tok = "Fashion" -> "fashion"
      [] tok = "Check" -> "check"
      [] OTHER -> tok

NumPatterns == 4

\* INAPPROPRIATE_PATTERNS[p - 1], as the set of (lower-case) phrases it matches
InappropriateTokens(p) ==
    CASE p = 1 -> {"hate", "violence", "abuse", "harassment"}
      [] p = 2 -> {"spam", "follow4follow", "f4f", "l4l"}
      [] p = 3 -> {"click link", "bio link", "dm me"}
      [] OTHER -> {"free followers", "buy followers"}

AllInappropriate == UNION {InappropriateTokens(p) : p \in 1..NumPatterns}

\* SPAM_INDICATORS, lower-cased
SpamIndicators ==
    {"dm for collab", "check my bio", "link in bio", "100% real", "no scam", "get rich quick"}

\* misleadingPatterns: regex literals of the handler's body, fresh on every request
MisleadingTokens ==
    {"guaranteed results", "guaranteed success", "guaranteed money",
     "cure", "miracle", "instant results", "medical advice", "financial advice"}

\* characters a fragment stands for
FragLength(tok) == IF tok = "x2200" THEN 2200 ELSE 1

\* emoji of the checked ranges a fragment stands for
FragEmoji(tok) ==
    CASE tok = "emoji" -> 1
      [] tok = "emoji x15" -> 15
      [] tok = "emoji x16" -> 16
      [] OTHER -> 0

\* #word matches a fragment stands for
FragHashtags(tok) ==
    CASE tok = "#tag" -> 1
      [] tok = "#tag x10" -> 10
      [] tok = "#tag x11" -> 11
      [] OTHER -> 0

RECURSIVE SumSeq(_)
SumSeq(s) == IF s = <<>> THEN 0 ELSE Head(s) + SumSeq(Tail(s))

\* caption.length
CaptionLength(caption) == SumSeq([i \in 1..Len(caption) |-> FragLength(caption[i])])

\* (caption.match(/[emoji ranges]/gu) || []).length
EmojiCount(caption) == SumSeq([i \in 1..Len(caption) |-> FragEmoji(caption[i])])

\* (caption.match(/#\w+/g) || []).length
HashtagInCaption(caption) == SumSeq([i \in 1..Len(caption) |-> FragHashtags(caption[i])])

ZeroIndex == [p \in 1..NumPatterns |-> 0]

\* RegExp.prototype.test of a global-flag regex: the search starts at lastIndex;
\* a match leaves lastIndex at its end, a failure resets lastIndex to 0
RegexTest(tokens, s, li) ==
    LET hits == {i \in (li + 1)..Len(s) : Lower(s[i]) \in tokens}
    IN  [found |-> hits # {}, lastIndex |-> IF hits = {} THEN 0 ELSE Min(hits)]

\* for (const pattern of INAPPROPRIATE_PATTERNS) { if (pattern.test(caption)) {...; break;} }
RECURSIVE HateScan(_, _, _)
HateScan(p, caption, li) ==
    IF p > NumPatterns THEN [matched |-> FALSE, li |-> li]
    ELSE LET t == RegexTest(InappropriateTokens(p), caption, li[p])
             li2 == [li EXCEPT ![p] = t.lastIndex]
         IN  IF t.found THEN [matched |-> TRUE, li |-> li2]
             ELSE HateScan(p + 1, caption, li2)

\* lowerCaption.includes(indicator.toLowerCase()) for some indicator
SpamMatch(caption) == \E i \in 1..Len(caption) : Lower(caption[i]) \in SpamIndicators

\* pattern.test(caption) for some misleading pattern (lastIndex is 0: fresh regex)
MisleadingMatch(caption) == \E i \in 1..Len(caption) : Lower(caption[i]) \in MisleadingTokens

EnabledAlways(opt) == TRUE

\* options.X !== false
Enabled(opt) == opt # "false"

CaptionTooLongInclusive(caption) == CaptionLength(caption) >= MaxCaptionLength

\* caption.length > 2200
CaptionTooLong(caption) == CaptionLength(caption) > MaxCaptionLength

(* ------------------------- suggestion generator ----------------------- *)

MaskInappropriate(tok) == IF Lower(tok) \in AllInappropriate THEN "***" ELSE tok

NotSpam(tok) == Lower(tok) \notin SpamIndicators

CollapsePunctuation(tok) ==
    CASE tok = "!!!" -> "!"
      [] tok = "???" -> "?"
      [] tok = "...." -> "..."
      [] OTHER -> tok

\* sanitizeCaption: mask pattern matches, delete spam phrases, collapse runs, trim
SanitizeCaption(caption) ==
    LET masked == [i \in 1..Len(caption) |-> MaskInappropriate(caption[i])]
        cleaned == SelectSeq(masked, NotSpam)
    IN  Trim([i \in 1..Len(cleaned) |-> CollapsePunctuation(cleaned[i])])

\* h.toLowerCase() of a tag, fragment by fragment
LowerTag(tag) == [i \in 1..Len(tag) |-> Lower(tag[i])]

\* [...new Set(list)]: first occurrences, in order
RECURSIVE Dedupe(_)
Dedupe(s) ==
    IF s = <<>> THEN <<>>
    ELSE LET front == Dedupe(SubSeq(s, 1, Len(s) - 1))
             last == s[Len(s)]
         IN  IF \E i \in 1..Len(front) : front[i] = last THEN front ELSE Append(front, last)

\* h.startsWith('#') ? h : `#${h}`
AddHash(tag) == IF StartsWith(tag, "#") THEN tag ELSE <<"#">> \o tag

MaxHashtags == 30

Trending == << <<"#", "reels">>, <<"#", "instagram">>, <<"#", "viral">>,
               <<"#", "explore">>, <<"#", "instagood">> >>

RECURSIVE AddTrending(_, _)
AddTrending(optimized, i) ==
    IF i > Len(Trending) THEN optimized
    ELSE IF Len(optimized) < MaxHashtags
            /\ ~(\E j \in 1..Len(optimized) : optimized[j] = Trending[i])
         THEN AddTrending(Append(optimized, Trending[i]), i + 1)
         ELSE AddTrending(optimized, i + 1)

\* optimizeHashtags(hashtags, caption)
OptimizeHashtags(tags) ==
    LET unique == Dedupe([i \in 1..Len(tags) |-> LowerTag(tags[i])])
        formatted == [i \in 1..Len(unique) |-> AddHash(unique[i])]
        optimized == SubSeq(formatted, 1, IF Len(formatted) < MaxHashtags
                                          THEN Len(formatted) ELSE MaxHashtags)
    IN  AddTrending(optimized, 1)


(* ------------------------------- metrics ------------------------------ *)

\* the parts a lower-case caption word is written with, so that one word can hold
\* another ("fashionista" holds "fashion")
WordParts(w) ==
    CASE w = "fashionista" -> <<"fashion", "ista">>
      [] w = "collection!" -> <<"collection", "!">>
      [] OTHER -> <<w>>

\* the words of a lower-case fragment
FragWords(tok) ==
    CASE tok = "link in bio" -> << <<"link">>, <<"in">>, <<"bio">> >>
      [] tok = "no scam" -> << <<"no">>, <<"scam">> >>
      [] OTHER -> << WordParts(tok) >>

\* caption.toLowerCase().split(/\s+/): white space inside the caption separates
\* words, white space at either end leaves an empty string in the list
RECURSIVE CaptionWords(_, _)
CaptionWords(caption, i) ==
    IF i > Len(caption) THEN <<>>
    ELSE (IF caption[i] = " "
          THEN (IF i = 1 \/ i = Len(caption) THEN << <<>> >> ELSE <<>>)
          ELSE FragWords(Lower(caption[i])))
         \o CaptionWords(caption, i + 1)

\* a.includes(b)
Includes(a, b) ==
    \E i \in 0..(Len(a) - Len(b)) : SubSeq(a, i + 1, i + Len(b)) = b

\* hashtag.replace('#', '').toLowerCase()
CleanHashtag(tag) == [i \in 1..Len(ReplaceFirst(tag, "#")) |-> Lower(ReplaceFirst(tag, "#")[i])]

\* captionWords.some(word => word.includes(cleanHashtag) || cleanHashtag.includes(word))
Relevant(tag, words) ==
    \E j \in 1..Len(words) :
        Includes(words[j], CleanHashtag(tag)) \/ Includes(CleanHashtag(tag), words[j])

\* Math.round((n / d) * 100), n and d naturals, d > 0
RoundPercent(n, d) == (200 * n + d) \div (2 * d)

\* calculateHashtagRelevance(caption, hashtags)
CalculateHashtagRelevance(caption, tags) ==
    IF Len(tags) = 0 THEN 50
    ELSE LET words == CaptionWords(caption, 1)
             relevantCount == Cardinality({i \in 1..Len(tags) : Relevant(tags[i], words)})
         IN  RoundPercent(relevantCount, Len(tags))

(* ----------------------------- access gate ---------------------------- *)

\* an undefined field of a result (limit, remaining of { allowed: true })
Undefined == 0 - 1

NoKey == "none"

AnyKeyRows(key) == {id \in DOMAIN api_keys : api_keys[id].key = key}

\* .from('api_keys') ... .eq('key', key).eq('is_active', true)
ActiveKeyRows(key) ==
    {id \in DOMAIN api_keys : api_keys[id].key = key /\ api_keys[id].is_active}

\* .from('api_keys') ... .eq('key', key)
KeyRows(key) == {id \in DOMAIN api_keys : api_keys[id].key = key}

QuotaExceededStrict(profile) == profile.api_calls_count > profile.api_calls_limit

\* profile.api_calls_count >= profile.api_calls_limit
QuotaExceeded(profile) == profile.api_calls_count >= profile.api_calls_limit

Invalid(msg, call) == [valid |-> FALSE, error |-> msg, keyId |-> NoKey, call |-> call]

\* validateApiKey(apiKey), the store answering its one query with outcome o;
\* call is the outcome seen, "none" when the store was not asked
ValidateApiKey(apiKey, o) ==
    IF ~supabaseConfigured THEN Invalid("Database not configured", "none")
    ELSE IF apiKey = NoString THEN Invalid("API key required", "none")
    ELSE IF ~StartsWith(CleanKey(apiKey), "sk_") THEN Invalid("Invalid API key format", "none")
    ELSE IF o = "throw" THEN Invalid("Failed to validate API key", o)
    ELSE IF o \in {"error", "nodata"} THEN Invalid("Invalid API key", o)
    ELSE IF ActiveKeyRows(CleanKey(apiKey)) = {} THEN Invalid("Invalid API key", o)
    ELSE LET id == CHOOSE k \in ActiveKeyRows(CleanKey(apiKey)) : TRUE
         IN  IF QuotaExceeded(profiles[api_keys[id].user_id])
             THEN Invalid("API limit exceeded. Please upgrade your plan.", o)
             ELSE [valid |-> TRUE, error |-> "", keyId |-> id, call |-> o]

RateExceededStrict(usageCount, perMinute) == usageCount > perMinute

\* usageCount >= limits.perMinute
RateExceeded(usageCount, perMinute) == usageCount >= perMinute

RateResult(allowed, limit, remaining, c1, c2) ==
    [allowed |-> allowed, limit |-> limit, remaining |-> remaining, calls |-> <<c1, c2>>]

\* the argument checkRateLimit looks the key up by
RateLookupKey(apiKey) == apiKey

\* checkRateLimit(apiKey), the store answering the key lookup with outcome o1 and
\* the usage-log query with outcome o2
CheckRateLimit(apiKey, o1, o2) ==
    IF ~supabaseConfigured THEN RateResult(TRUE, Undefined, Undefined, "none", "none")
    ELSE IF o1 = "throw" THEN RateResult(TRUE, Undefined, Undefined, o1, "none")
    ELSE IF o1 \in {"error", "nodata"} THEN RateResult(FALSE, Undefined, Undefined, o1, "none")
    ELSE IF KeyRows(RateLookupKey(apiKey)) = {}
         THEN RateResult(FALSE, Undefined, Undefined, "notfound", "none")
    ELSE LET id == CHOOSE k \in KeyRows(RateLookupKey(apiKey)) : TRUE
             perMinute == PerMinute(profiles[api_keys[id].user_id].subscription_tier)
             usageCount == IF o2 = "nodata" THEN 0 ELSE RecentUsage(id)
         IN  IF o2 \in {"throw", "error"} THEN RateResult(TRUE, Undefined, Undefined, o1, o2)
             ELSE IF RateExceeded(usageCount, perMinute)
                  THEN RateResult(FALSE, perMinute, 0, o1, o2)
                  ELSE RateResult(TRUE, perMinute, perMinute - usageCount, o1, o2)

NoRate == RateResult(FALSE, Undefined, Undefined, "none", "none")

NoValidation == Invalid("", "none")

(* ------------------------------ validator ----------------------------- *)

NoSuggestions == [hasCaption |-> FALSE, caption |-> <<>>, hasHashtags |-> FALSE, hashtags |-> <<>>]

NoResult ==
    [safe |-> TRUE, score |-> 0, issues |-> <<>>, suggestions |-> NoSuggestions,
     hashtagRelevance |-> 0]

PenaltyAlways(triggered, amount) == amount

\* score -= amount, inside the branch of a check that triggered
Penalty(triggered, amount) == IF triggered THEN amount ELSE 0

SafeDespiteSpam(hate, spam, misleading) == ~(hate \/ misleading)

\* let safe = true, and safe = false where the inappropriate-content, spam-phrase
\* or misleading-claim check triggers
IsSafe(hate, spam, misleading) == ~(hate \/ spam \/ misleading)

\* Math.max(0, Math.min(100, score))
Clamp(score) == IF score < 0 THEN 0 ELSE IF score > 100 THEN 100 ELSE score

\* the handler from `const issues = []` to `const response = {...}`, run on a
\* well-formed body with the pattern state li. threw: an exception left the
\* pipeline (calculateHashtagRelevance iterating a hashtags value that is no list).
\* Of response.metrics the result carries hashtagRelevance; engagementScore and
\* readabilityScore are values of the caption that nothing else reads.
RunValidator(body, li) ==
    LET caption == body.caption
        hate == IF Enabled(body.options.checkHateSpeech)
                THEN HateScan(1, caption, li)
                ELSE [matched |-> FALSE, li |-> li]
        spam == Enabled(body.options.checkSpam) /\ SpamMatch(caption)
        emoji == Enabled(body.options.checkSpam) /\ EmojiCount(caption) > MaxEmoji
        tags == Enabled(body.options.checkSpam) /\ HashtagInCaption(caption) > MaxCaptionHashtags
        misleading == Enabled(body.options.checkCompliance) /\ MisleadingMatch(caption)
        safe == IsSafe(hate.matched, spam, misleading)
        score == 100 - Penalty(hate.matched, HatePenalty)
                     - Penalty(spam, SpamPenalty)
                     - Penalty(emoji, EmojiPenalty)
                     - Penalty(tags, HashtagPenalty)
                     - Penalty(misleading, MisleadingPenalty)
        issues == (IF hate.matched THEN <<"Potentially inappropriate content detected">> ELSE <<>>)
                  \o (IF spam THEN <<"Spam-like content detected">> ELSE <<>>)
                  \o (IF emoji THEN <<"Excessive emoji usage detected">> ELSE <<>>)
                  \o (IF tags THEN <<"Too many hashtags in caption text">> ELSE <<>>)
                  \o (IF misleading THEN <<"Potentially misleading claims detected">> ELSE <<>>)
        wantTags == Enabled(body.options.optimizeHashtags) /\ Len(body.hashtags.tags) > 0
        wantCaption == ~safe /\ CaptionLength(caption) > 0
        suggestions == [hasCaption |-> wantCaption,
                        caption |-> IF wantCaption THEN SanitizeCaption(caption) ELSE <<>>,
                        hasHashtags |-> wantTags,
                        hashtags |-> IF wantTags THEN OptimizeHashtags(body.hashtags.tags) ELSE <<>>]
    IN  IF ~body.hashtags.iterable
        THEN [threw |-> TRUE, li |-> hate.li, result |-> NoResult]
        ELSE [threw |-> FALSE,
              li |-> IF wantCaption THEN ZeroIndex ELSE hate.li,
              result |-> [safe |-> safe, score |-> Clamp(score), issues |-> issues,
                          suggestions |-> suggestions,
                          hashtagRelevance |->
                              CalculateHashtagRelevance(caption, body.hashtags.tags)]]


(* --------------------------- usage tracking --------------------------- *)

NoCalls == <<"none", "none", "none", "none">>

TrackEffectsNoAbort(o) ==
    [log |-> o[1] = "ok",
     key |-> o[2] = "ok",
     profile |-> o[3] = "ok" /\ o[4] = "ok",
     calls |-> <<o[1], o[2], o[3], IF o[3] = "ok" THEN o[4] ELSE "none">>]

\* trackUsage(apiKeyId, ...): the log insert, the key update, the user_id lookup and
\* the profile update answer with o[1..4]; a throw ends the function in its catch,
\* a returned error is not looked at. What each call did, and the calls made.
TrackEffects(o) ==
    LET at2 == o[1] # "throw"
        at3 == at2 /\ o[2] # "throw"
        at4 == at3 /\ o[3] = "ok"
    IN  [log |-> o[1] = "ok",
         key |-> at2 /\ o[2] = "ok",
         profile |-> at4 /\ o[4] = "ok",
         calls |-> <<o[1],
                     IF at2 THEN o[2] ELSE "none",
                     IF at3 THEN o[3] ELSE "none",
                     IF at4 THEN o[4] ELSE "none">>]

TrackUsageRethrows(calls) == \E i \in DOMAIN calls : calls[i] = "throw"

\* whether an exception leaves trackUsage: its try/catch lets none out
TrackUsageThrows(calls) == FALSE

Failed(c) == c \notin {"ok", "none", "notfound"}

NumFailed(calls) == Cardinality({i \in DOMAIN calls : Failed(calls[i])})

(* --------------------------- request handler -------------------------- *)

\* new Response(...): status, body and the headers that carry rate guidance
Response(status, code, error, retryAfter, xLimit, xRemaining, result) ==
    [status |-> status, code |-> code, error |-> error, retryAfter |-> retryAfter,
     xLimit |-> xLimit, xRemaining |-> xRemaining, result |-> result]

NoResponse == Response(0, "", "", Undefined, Undefined, Undefined, NoResult)

NoHeaders == [authorization |-> NoString, xApiKey |-> NoString]

DefaultOptions ==
    [checkHateSpeech |-> "unset", checkSpam |-> "unset", checkCompliance |-> "unset",
     optimizeHashtags |-> "unset"]

NoBody == [json |-> FALSE, caption |-> <<>>, hashtags |-> [iterable |-> TRUE, tags |-> <<>>],
           options |-> DefaultOptions]

IdleRequest ==
    [pc |-> "idle", headers |-> NoHeaders, validation |-> NoValidation,
     rateLimit |-> NoRate, body |-> NoBody, track |-> NoCalls, response |-> NoResponse]

\* the header pairs requests arrive with
HeaderChoices ==
    { [authorization |-> <<"Bearer ", "sk_", "a">>, xApiKey |-> NoString],
      [authorization |-> NoString, xApiKey |-> <<"sk_", "a">>],
      [authorization |-> NoString, xApiKey |-> <<"sk_", "b">>],
      [authorization |-> NoString, xApiKey |-> <<"sk_", "zz">>],
      [authorization |-> <<"zz">>, xApiKey |-> <<"sk_", "a">>],
      NoHeaders }

Body(caption, iterable, options) ==
    [json |-> TRUE, caption |-> caption, hashtags |-> [iterable |-> iterable, tags |-> <<>>],
     options |-> options]

BodyWith(caption, tags, options) ==
    [json |-> TRUE, caption |-> caption, hashtags |-> [iterable |-> TRUE, tags |-> tags],
     options |-> options]

\* the request bodies of the requests that exercise the gate
GateBodies ==
    { Body(<<"ok">>, TRUE, DefaultOptions),
      Body(<<>>, TRUE, DefaultOptions),
      Body(<<"x2200", "ok">>, TRUE, DefaultOptions),
      NoBody }

\* the request bodies of the requests that exercise the validator
ContentBodies ==
    { Body(<<"hate">>, TRUE, DefaultOptions),
      Body(<<"hate">>, FALSE, DefaultOptions),
      Body(<<"ok", "HATE">>, TRUE, DefaultOptions),
      Body(<<"ok">>, TRUE, DefaultOptions),
      Body(<<"Link in bio", "ok">>, TRUE, DefaultOptions),
      Body(<<"hate">>, TRUE, [DefaultOptions EXCEPT !.checkHateSpeech = "false"]),
      Body(<<>>, TRUE, DefaultOptions),
      NoBody }

\* request.headers.get('Authorization') || request.headers.get('X-API-Key')
HeaderKey(h) == IF h.authorization # NoString THEN h.authorization ELSE h.xApiKey

\* String(value || fallback)
OrElse(value, fallback) == IF value = Undefined \/ value = 0 THEN fallback ELSE value

\* a store that answers every call
Reliable == {"ok"}

\* a store that may fail a call in any of the ways S while faults remain in the budget
Unreliable(S) == IF faults < MaxFaults THEN S ELSE {"ok"}

\* the store with one user of the given tier and lifetime count, two keys of that
\* user, those of active being active, and the given rows of k1 logged at time 0
InitStoreWith(tier, count, rows, active) ==
    /\ profiles = [u \in Users |->
                     [subscription_tier |-> tier,
                      subscription_status |-> "active",
                      api_calls_limit |-> PlanLimit(tier),
                      api_calls_count |-> count]]
    /\ usage_logs = [id \in KeyIds |-> [t \in Ticks |->
                       IF id = "k1" /\ t = 0 THEN rows ELSE 0]]
    /\ api_keys = [id \in KeyIds |->
                     [user_id |-> "u1",
                      key |-> IF id = "k1" THEN <<"sk_", "a">> ELSE <<"sk_", "b">>,
                      is_active |-> (id \in active),
                      usage_count |-> 0,
                      last_used |-> Undefined]]
    /\ tick = 0
    /\ lastIndex = ZeroIndex
    /\ faults = 0
    /\ req = [r \in Reqs |-> IdleRequest]
    /\ payment_orders = [o \in OrderIds |-> NoOrder]
    /\ lastBilling = NoBilling
    /\ lastKey = NoKeyCall

\* the store with an active key k1 and a deactivated key k2
InitStore(tier, count, rows) == InitStoreWith(tier, count, rows, {"k1"})

\* a user of any tier, anywhere from a fresh account to the monthly limit, the
\* key's rate window empty, one below its threshold or at it; or a deployment
\* without store credentials
Init ==
    \/ /\ supabaseConfigured = FALSE
       /\ InitStore("free", 0, 0)
    \/ /\ supabaseConfigured = TRUE
       /\ \E tier \in TierValues :
            \E count \in {0, PlanLimit(tier) - 1, PlanLimit(tier)},
               rows \in {0, PerMinute(tier) - 1, PerMinute(tier)} :
                 InitStore(tier, count, rows)

\* the validator's runs start from a fresh free account
InitContent ==
    /\ supabaseConfigured = TRUE
    /\ InitStore("free", 0, 0)

\* lines 49-77 of the handler: read the key header, await validateApiKey
Authenticate(r, H, O) ==
    /\ req[r].pc = "idle"
    /\ \A q \in Reqs : q < r => req[q].pc # "idle"
    /\ \E h \in H, o \in O :
         LET apiKey == HeaderKey(h)
             v == ValidateApiKey(apiKey, o)
             base == [req[r] EXCEPT !.headers = h]
         IN  /\ faults' = faults + (IF apiKey # NoString /\ Failed(v.call) THEN 1 ELSE 0)
             /\ req' = [req EXCEPT ![r] =
                   IF apiKey = NoString
                   THEN [base EXCEPT !.pc = "done",
                           !.response = Response(401, "MISSING_API_KEY", "API key required",
                                                 Undefined, Undefined, Undefined, NoResult)]
                   ELSE IF ~v.valid
                   THEN [base EXCEPT !.pc = "done", !.validation = v,
                           !.response = Response(401, "INVALID_API_KEY", v.error,
                                                 Undefined, Undefined, Undefined, NoResult)]
                   ELSE [base EXCEPT !.pc = "rate", !.validation = v]]
    /\ UNCHANGED <<supabaseConfigured, profiles, api_keys, usage_logs, tick, lastIndex, billing>>

\* lines 79-97: await checkRateLimit(apiKey)
RateLimit(r, O) ==
    /\ req[r].pc = "rate"
    /\ \E o1 \in O, o2 \in O :
         LET rl == CheckRateLimit(HeaderKey(req[r].headers), o1, o2)
         IN  /\ NumFailed(rl.calls) <= 1
             /\ faults' = faults + NumFailed(rl.calls)
             /\ req' = [req EXCEPT ![r] =
                   IF ~rl.allowed
                   THEN [@ EXCEPT !.pc = "done", !.rateLimit = rl,
                           !.response = Response(429, "RATE_LIMIT_EXCEEDED", "Rate limit exceeded",
                                                 60, OrElse(rl.limit, 10), 0, NoResult)]
                   ELSE [@ EXCEPT !.pc = "body", !.rateLimit = rl]]
    /\ UNCHANGED <<supabaseConfigured, profiles, api_keys, usage_logs, tick, lastIndex, billing>>

InternalError ==
    Response(500, "INTERNAL_ERROR", "Internal server error", Undefined, Undefined, Undefined, NoResult)

\* lines 99-211: await request.json(), the input checks and the validator
Validate(r, B) ==
    /\ req[r].pc = "body"
    /\ \E body \in B :
         LET v == RunValidator(body, lastIndex)
             rl == req[r].rateLimit
             base == [req[r] EXCEPT !.body = body]
         IN  IF ~body.json
             THEN /\ req' = [req EXCEPT ![r] = [base EXCEPT !.pc = "done", !.response = InternalError]]
                  /\ UNCHANGED lastIndex
             ELSE IF body.caption = <<>>
             THEN /\ req' = [req EXCEPT ![r] = [base EXCEPT !.pc = "done",
                       !.response = Response(400, "MISSING_CAPTION", "Caption is required",
                                             Undefined, Undefined, Undefined, NoResult)]]
                  /\ UNCHANGED lastIndex
             ELSE IF CaptionTooLong(body.caption)
             THEN /\ req' = [req EXCEPT ![r] = [base EXCEPT !.pc = "done",
                       !.response = Response(400, "CAPTION_TOO_LONG",
                                             "Caption exceeds Instagram limit of 2200 characters",
                                             Undefined, Undefined, Undefined, NoResult)]]
                  /\ UNCHANGED lastIndex
             ELSE IF v.threw
             THEN /\ req' = [req EXCEPT ![r] = [base EXCEPT !.pc = "done", !.response = InternalError]]
                  /\ lastIndex' = v.li
             ELSE /\ req' = [req EXCEPT ![r] = [base EXCEPT !.pc = "track",
                       !.response = Response(200, "", "", Undefined, OrElse(rl.limit, 10),
                                             OrElse(rl.remaining, 0), v.result)]]
                  /\ lastIndex' = v.li
    /\ UNCHANGED <<supabaseConfigured, profiles, api_keys, usage_logs, tick, faults, billing>>

\* lines 213-232: await trackUsage(keyData.id, ...), then the 200 response
TrackUsage(r, O) ==
    /\ req[r].pc = "track"
    /\ \E o \in [1..4 -> O] :
         LET e == TrackEffects(o)
             id == req[r].validation.keyId
             user == api_keys[id].user_id
         IN  /\ faults + NumFailed(e.calls) <= MaxFaults
             /\ faults' = faults + NumFailed(e.calls)
             /\ usage_logs' = IF e.log
                              THEN [usage_logs EXCEPT ![id][tick] = @ + 1]
                              ELSE usage_logs
             /\ api_keys' = IF e.key
                            THEN [api_keys EXCEPT ![id].usage_count = @ + 1,
                                                  ![id].last_used = Now]
                            ELSE api_keys
             /\ profiles' = IF e.profile
                            THEN [profiles EXCEPT ![user].api_calls_count = @ + 1]
                            ELSE profiles
             /\ req' = [req EXCEPT ![r] =
                   IF TrackUsageThrows(e.calls)
                   THEN [@ EXCEPT !.pc = "done", !.track = e.calls, !.response = InternalError]
                   ELSE [@ EXCEPT !.pc = "done", !.track = e.calls]]
    /\ UNCHANGED <<supabaseConfigured, tick, lastIndex, billing>>

\* time passes
Tick ==
    /\ tick < MaxTicks
    /\ tick' = tick + 1
    /\ UNCHANGED <<supabaseConfigured, profiles, api_keys, usage_logs, lastIndex, faults, req,
                   billing>>

\* the gate over every kind of key header and store state, requests overlapping,
\* the store answering every call
Next ==
    \/ \E r \in Reqs : Authenticate(r, HeaderChoices, Reliable)
    \/ \E r \in Reqs : RateLimit(r, Reliable)
    \/ \E r \in Reqs : Validate(r, GateBodies)
    \/ \E r \in Reqs : TrackUsage(r, Reliable)
    \/ Tick

Spec == Init /\ [][Next]_vars

\* the same handler over a store that may fail calls
InitFaults ==
    /\ supabaseConfigured = TRUE
    /\ \E count \in {0, PlanLimit("free")}, rows \in {0, PerMinute("free")} :
         InitStore("free", count, rows)

NextFaults ==
    \/ \E r \in Reqs : Authenticate(r, HeaderChoices, Unreliable({"ok", "error", "throw"}))
    \/ \E r \in Reqs : RateLimit(r, Unreliable(ReadOutcomes))
    \/ \E r \in Reqs : Validate(r, GateBodies)
    \/ \E r \in Reqs : TrackUsage(r, Unreliable(WriteOutcomes))

SpecFaults == InitFaults /\ [][NextFaults]_vars

\* requests that carry the active key, with the bodies that exercise the validator
KeyHeaders == { [authorization |-> NoString, xApiKey |-> <<"sk_", "a">>] }

NextContent ==
    \/ \E r \in Reqs : Authenticate(r, KeyHeaders, Reliable)
    \/ \E r \in Reqs : RateLimit(r, Reliable)
    \/ \E r \in Reqs : Validate(r, ContentBodies)
    \/ \E r \in Reqs : TrackUsage(r, Reliable)

SpecContent == InitContent /\ [][NextContent]_vars


(* ----------------------- the validator's input space ------------------ *)

\* one fragment per check: an inappropriate word, a spam phrase, more than 15
\* emoji, more than 10 #words, a misleading word
Triggers == <<"hate", "Link in bio", "emoji x16", "#tag x11", "Cure">>

\* the fragments of seq at the positions in S, in order, from position i on
RECURSIVE Pick(_, _, _)
Pick(seq, S, i) ==
    IF i > Len(seq) THEN <<>>
    ELSE (IF i \in S THEN <<seq[i]>> ELSE <<>>) \o Pick(seq, S, i + 1)

\* captions that trigger every combination of the five checks, and captions where
\* one check has several matches, where counts sit on their limits, and of no
\* length, 2200 and 2201 characters
ValidatorCaptions ==
    { <<"ok">> \o Pick(Triggers, S, 1) : S \in SUBSET (1..Len(Triggers)) }
    \cup { <<>>, <<"x2200">>, <<"x2200", "ok">>, <<"x2200", "hate">>,
           <<"hate", "spam", "abuse">>, <<"Link in bio", "no scam">>,
           <<"Cure", "miracle">>, <<"emoji x15", "#tag x10">> }

CheckOptions ==
    { [DefaultOptions EXCEPT !.checkHateSpeech = h, !.checkSpam = sp, !.checkCompliance = c] :
        h \in {"unset", "false"}, sp \in {"unset", "false"}, c \in {"unset", "false"} }

\* 31 tags, all different
ManyTags ==
    <<
       <<"t01">>, <<"t02">>, <<"t03">>, <<"t04">>, <<"t05">>, <<"t06">>,
       <<"t07">>, <<"t08">>, <<"t09">>, <<"t10">>, <<"t11">>, <<"t12">>,
       <<"t13">>, <<"t14">>, <<"t15">>, <<"t16">>, <<"t17">>, <<"t18">>,
       <<"t19">>, <<"t20">>, <<"t21">>, <<"t22">>, <<"t23">>, <<"t24">>,
       <<"t25">>, <<"t26">>, <<"t27">>, <<"t28">>, <<"t29">>, <<"t30">>,
       <<"t31">>
    >>

\* hashtag lists: none, mixed case, with and without '#', a tag given twice, a
\* word of the caption, a trending tag, and 29, 30 and 31 tags
TagLists ==
    { <<>>,
      << <<"#", "fashion">>, <<"#", "style">> >>,
      << <<"fashion">>, <<"#", "fashion">> >>,
      << <<"#", "Fashion">>, <<"#", "fashion">>, <<"style">> >>,
      << <<"#", "collection">>, <<"reels">>, <<"#", "style">> >>,
      SubSeq(ManyTags, 1, 29), SubSeq(ManyTags, 1, 30), ManyTags }

TagCaptions ==
    { <<"Check", "out", "my", "new", "collection!", "emoji">>, <<"fashionista", "hate">> }

TagOptions ==
    { [DefaultOptions EXCEPT !.optimizeHashtags = o] : o \in {"unset", "true", "false"} }

\* the request bodies the validator is run on
ValidatorBodies ==
    { BodyWith(c, <<>>, o) : c \in ValidatorCaptions, o \in CheckOptions }
    \cup { BodyWith(c, t, o) : c \in TagCaptions, t \in TagLists, o \in TagOptions }

\* the bodies of the requests handled before: one that ends in a 500 after the
\* inappropriate-content patterns were tested, and one that is answered 200
HistoryBodies ==
    { Body(<<"hate">>, FALSE, DefaultOptions), Body(<<"ok">>, TRUE, DefaultOptions) }

\* the last request runs the validator on any body of its input space, after the
\* requests before it
NextValidator ==
    \/ \E r \in Reqs : Authenticate(r, KeyHeaders, Reliable)
    \/ \E r \in Reqs : RateLimit(r, Reliable)
    \/ \E r \in Reqs \ {NumReq} : Validate(r, HistoryBodies)
    \/ Validate(NumReq, ValidatorBodies)
    \/ \E r \in Reqs : TrackUsage(r, Reliable)

SpecValidator == InitContent /\ [][NextValidator]_vars


(* ------------------------------- billing ------------------------------ *)

\* auth.users: the accounts that exist or may sign up
Accounts == {"u1", "u2"}

\* the state of the validate endpoint besides profiles
gate == <<supabaseConfigured, api_keys, usage_logs, tick, lastIndex, faults, req>>

\* handle_new_user, the trigger on auth.users: a profile with the column defaults
Signup(u) ==
    /\ u \in Accounts \ DOMAIN profiles
    /\ profiles' = profiles @@ (u :> [subscription_tier |-> "free",
                                      subscription_status |-> "active",
                                      api_calls_limit |-> DefaultCallsLimit,
                                      api_calls_count |-> 0])
    /\ UNCHANGED <<gate, billing>>

\* the Authorization header of a billing call: none, a token of no session, or the
\* session token of an account
Tokens == {"none", "bad"} \cup Accounts

\* supabase.auth.getUser(token): { data: { user }, error }
GetUser(token, o) ==
    IF o = "ok" /\ token \in DOMAIN profiles THEN token ELSE "none"

\* CHECK (subscription_tier IN ('free', 'pro', 'enterprise'))
TierCheck(tier) == tier \in {"free", "pro", "enterprise"}

\* CHECK (plan IN ('pro', 'enterprise')) and CHECK (billing_cycle IN ('monthly', 'yearly'))
OrderCheck(plan, cycle) == plan \in {"pro", "enterprise"} /\ cycle \in {"monthly", "yearly"}

BillingResponse(endpoint, user, call, status) ==
    [endpoint |-> endpoint, user |-> user, plan |-> call.plan, orderId |-> call.orderId,
     signature |-> call.signature, status |-> status]

OrderCall(json, auth, plan, cycle) ==
    [json |-> json, auth |-> auth, plan |-> plan, cycle |-> cycle, orderId |-> "none",
     signature |-> ""]

\* the bodies and headers create-order is called with: each account for each plan
\* on sale, monthly or with no billing cycle; a plan not on sale; no header, no
\* session, and a body that is not JSON
OrderCalls ==
    { OrderCall(TRUE, a, pl, cy) : a \in Accounts, pl \in {"pro", "enterprise"},
                                  cy \in {"monthly", ""} }
    \cup { OrderCall(TRUE, "u1", "free", "monthly"), OrderCall(TRUE, "none", "pro", "monthly"),
           OrderCall(TRUE, "bad", "pro", "monthly"), OrderCall(FALSE, "u1", "pro", "monthly") }

\* POST create-order: the session, the plan's amount, the provider's order, and the
\* insert into payment_orders, whose result is not looked at
CreateOrder(c, O) ==
    \E oUser \in O, oProvider \in O \ {"error"}, oInsert \in O, o \in OrderIds :
        LET user == GetUser(c.auth, oUser)
            calls == <<oUser, oProvider, oInsert>>
            status == IF ~c.json THEN 500
                      ELSE IF c.auth = "none" THEN 401
                      ELSE IF ~supabaseConfigured THEN 500
                      ELSE IF oUser = "throw" THEN 500
                      ELSE IF user = "none" THEN 401
                      ELSE IF c.plan \notin {"pro", "enterprise"} THEN 400
                      ELSE IF oProvider = "throw" \/ oInsert = "throw" THEN 500
                      ELSE 200
            reached == status = 200 \/ (status = 500 /\ user # "none" /\ oProvider = "ok")
            stored == reached /\ oInsert = "ok" /\ OrderCheck(c.plan, c.cycle)
        IN  /\ payment_orders[o].status = "none"
            /\ NumFailed(calls) <= 1
            /\ faults' = faults + NumFailed(calls)
            /\ payment_orders' =
                 IF stored
                 THEN [payment_orders EXCEPT ![o] =
                         [status |-> "created", user_id |-> user, plan |-> c.plan,
                          billing_cycle |-> c.cycle, payment_id |-> "", signature |-> ""]]
                 ELSE payment_orders
            /\ lastBilling' = BillingResponse("create-order", user,
                                              [c EXCEPT !.orderId = IF reached THEN o ELSE "none"],
                                              status)
            /\ UNCHANGED <<supabaseConfigured, api_keys, usage_logs, tick, lastIndex, req,
                           profiles, lastKey>>

\* const subscriptionTier = plan || 'pro'
SubscriptionTier(plan) == IF plan = "" THEN "pro" ELSE plan

\* const newLimit = subscriptionTier === 'pro' ? 10000 : 100000
NewLimit(tier) == IF tier = "pro" THEN 10000 ELSE 100000

\* an order id the payment provider never issued
UnknownOrder == "o0"

PaymentCall(json, auth, plan, orderId, signature) ==
    [json |-> json, auth |-> auth, plan |-> plan, orderId |-> orderId, signature |-> signature]

\* the bodies and headers payment-success is called with: each account with a plan
\* on sale, 'free', a plan that does not exist or none, an order id issued or not,
\* a signature that verifies or not; no header, no session, a body that is not JSON
PaymentCalls ==
    { PaymentCall(TRUE, a, pl, o, sg) :
        a \in Accounts, pl \in {"pro", "enterprise", "free", "gold", ""},
        o \in OrderIds \cup {UnknownOrder}, sg \in {"valid", "forged"} }
    \cup { PaymentCall(TRUE, "none", "pro", "o1", "valid"),
           PaymentCall(TRUE, "bad", "pro", "o1", "valid"),
           PaymentCall(FALSE, "u1", "pro", "o1", "valid") }

\* verifyPaymentSignature(orderId, paymentId, signature): whether the signature is
\* the HMAC of `${orderId}|${paymentId}` under the provider's secret; the signatures
\* of the calls are named by what this comparison gives
VerifyPaymentSignature(signature) == signature = "valid"

\* POST payment-success: the session, the update of the caller's profile, and the
\* update of the payment order, whose result is not looked at
PaymentSuccess(c, O) ==
    \E oUser \in O, oProfile \in O, oOrder \in O :
        LET user == GetUser(c.auth, oUser)
            tier == SubscriptionTier(c.plan)
            calls == <<oUser, oProfile, oOrder>>
            atUpdate == /\ c.json /\ c.auth # "none" /\ supabaseConfigured
                        /\ oUser # "throw" /\ user # "none"
            updated == atUpdate /\ oProfile = "ok" /\ TierCheck(tier)
            atOrder == updated
            paid == /\ atOrder /\ oOrder = "ok"
                    /\ c.orderId \in OrderIds /\ payment_orders[c.orderId].status # "none"
            status == IF ~c.json THEN 500
                      ELSE IF c.auth = "none" THEN 401
                      ELSE IF ~supabaseConfigured THEN 500
                      ELSE IF oUser = "throw" THEN 500
                      ELSE IF user = "none" THEN 401
                      ELSE IF ~updated THEN 500
                      ELSE IF oOrder = "throw" THEN 500
                      ELSE 200
        IN  /\ NumFailed(calls) <= 1
            /\ faults' = faults + NumFailed(calls)
            /\ profiles' =
                 IF updated
                 THEN [profiles EXCEPT ![user] =
                         [subscription_tier |-> tier,
                          subscription_status |-> "active",
                          api_calls_limit |-> NewLimit(tier),
                          api_calls_count |-> 0]]
                 ELSE profiles
            /\ payment_orders' =
                 IF paid
                 THEN [payment_orders EXCEPT ![c.orderId].payment_id = "pay",
                                             ![c.orderId].signature = c.signature,
                                             ![c.orderId].status = "paid"]
                 ELSE payment_orders
            /\ lastBilling' = BillingResponse("payment-success", user, c, status)
            /\ UNCHANGED <<supabaseConfigured, api_keys, usage_logs, tick, lastIndex, req,
                           lastKey>>

\* signups, orders and payment callbacks in any order, the store and the payment
\* provider failing calls while faults remain in the budget
NextBilling ==
    \/ \E u \in Accounts : Signup(u)
    \/ \E c \in OrderCalls : CreateOrder(c, Unreliable(WriteOutcomes))
    \/ \E c \in PaymentCalls : PaymentSuccess(c, Unreliable(WriteOutcomes))

SpecBilling == InitContent /\ [][NextBilling]_vars


(* ----------------------------- key creation --------------------------- *)

\* the ids of the rows the key-creation endpoint may add
NewKeyIds == {"k3"}

\* what crypto.getRandomValues gives, as hex: a fresh string, or by chance the one
\* of a key that is already stored
HexChoices == {"c", "a"}

GenerateKeyBare(hex) == <<hex>>

\* const apiKey = 'sk_' + <64 hex digits>
GenerateKey(hex) == <<"sk_", hex>>

KeyCall(token, json, name) == [token |-> token, json |-> json, name |-> name]

\* the calls of the key-creation endpoint: no token, a token of no session or the
\* session token of an account with a body that names the key, and a session with
\* a body that does not or that is not JSON
KeyCalls ==
    { KeyCall(t, TRUE, "n") : t \in Tokens }
    \cup { KeyCall("u1", TRUE, ""), KeyCall("u1", FALSE, "") }

\* POST of the key-creation endpoint: the session, the body's name, the generated
\* key and the insert into api_keys, which the UNIQUE constraint on key may reject;
\* the columns the insert leaves out take their defaults
CreateKey(c, O) ==
    \E oUser \in O, oInsert \in O, hex \in HexChoices, id \in NewKeyIds :
        LET user == GetUser(c.token, oUser)
            apiKey == GenerateKey(hex)
            atUser == supabaseConfigured /\ c.token # "none"
            atInsert == /\ atUser /\ oUser # "throw" /\ user # "none"
                        /\ c.json /\ c.name # ""
            stored == atInsert /\ oInsert = "ok" /\ KeyRows(apiKey) = {}
            calls == <<IF atUser THEN oUser ELSE "none", IF atInsert THEN oInsert ELSE "none">>
            status == IF ~supabaseConfigured THEN 500
                      ELSE IF c.token = "none" THEN 401
                      ELSE IF oUser = "throw" THEN 500
                      ELSE IF user = "none" THEN 401
                      ELSE IF ~c.json THEN 500
                      ELSE IF c.name = "" THEN 400
                      ELSE IF ~stored THEN 500
                      ELSE 200
        IN  /\ stored => id \notin DOMAIN api_keys
            /\ (~atUser => oUser = "ok") /\ (~atInsert => oInsert = "ok" /\ hex = "c")
            /\ faults + NumFailed(calls) <= MaxFaults
            /\ faults' = faults + NumFailed(calls)
            /\ api_keys' =
                 IF stored
                 THEN api_keys @@ (id :> [user_id |-> user, key |-> apiKey, is_active |-> TRUE,
                                          usage_count |-> 0, last_used |-> Undefined])
                 ELSE api_keys
            /\ usage_logs' =
                 IF stored THEN usage_logs @@ (id :> [t \in Ticks |-> 0]) ELSE usage_logs
            /\ lastKey' = [token |-> c.token, json |-> c.json, name |-> c.name, user |-> user,
                           status |-> status,
                           key |-> IF status = 200 THEN apiKey ELSE <<>>,
                           calls |-> calls]
            /\ UNCHANGED <<supabaseConfigured, profiles, tick, lastIndex, req, payment_orders,
                           lastBilling>>

\* a free account with an active key, fresh or at its limit
InitKeys ==
    /\ supabaseConfigured \in BOOLEAN
    /\ \E count \in {0, PlanLimit("free")} : InitStore("free", count, 0)

\* requests that carry an issued key, bare or as a bearer token
IssuedHeaders ==
    { [authorization |-> NoString, xApiKey |-> GenerateKey("c")],
      [authorization |-> <<"Bearer ">> \o GenerateKey("c"), xApiKey |-> NoString] }

\* signups and key creations, the store failing calls while faults remain in the
\* budget, and validate requests that carry the keys
NextKeys ==
    \/ \E u \in Accounts : Signup(u)
    \/ \E c \in KeyCalls : CreateKey(c, Unreliable(WriteOutcomes))
    \/ \E r \in Reqs : Authenticate(r, IssuedHeaders, Reliable)
    \/ \E r \in Reqs : RateLimit(r, Reliable)
    \/ \E r \in Reqs : Validate(r, {Body(<<"ok">>, TRUE, DefaultOptions)})
    \/ \E r \in Reqs : TrackUsage(r, Reliable)

SpecKeys == InitKeys /\ [][NextKeys]_vars


(* ------------------------ one request at a time ----------------------- *)

\* no request other than r is between its first await and its response
Alone(r) == \A q \in Reqs \ {r} : req[q].pc \in {"idle", "done"}

\* the handler with its requests handled strictly one after another, the store
\* answering every call
NextSequential ==
    \/ \E r \in Reqs : Alone(r) /\ Authenticate(r, HeaderChoices, Reliable)
    \/ \E r \in Reqs : RateLimit(r, Reliable)
    \/ \E r \in Reqs : Validate(r, GateBodies)
    \/ \E r \in Reqs : TrackUsage(r, Reliable)
    \/ Tick

SpecSequential == Init /\ [][NextSequential]_vars


(* ----------------------- the quota across endpoints ------------------- *)

\* a free account with two active keys, fresh, one call below its limit or at it
InitQuota ==
    /\ supabaseConfigured = TRUE
    /\ \E count \in {0, PlanLimit("free") - 1, PlanLimit("free")} :
         InitStoreWith("free", count, 0, KeyIds)

\* requests that carry one of the user's two keys
QuotaHeaders ==
    { [authorization |-> NoString, xApiKey |-> <<"sk_", "a">>],
      [authorization |-> NoString, xApiKey |-> <<"sk_", "b">>] }

\* payment callbacks of the user for a plan on sale, 'free' and a plan that does
\* not exist, and one with no session
QuotaPayments ==
    { PaymentCall(TRUE, "u1", pl, "o1", "valid") : pl \in {"pro", "free", "gold"} }
    \cup { PaymentCall(TRUE, "none", "pro", "o1", "valid") }

\* no request is between its first await and its response
Quiet == \A r \in Reqs : req[r].pc \in {"idle", "done"}

\* validate requests and payment callbacks handled one at a time, the store
\* answering every call
NextQuota ==
    \/ \E r \in Reqs : Alone(r) /\ Authenticate(r, QuotaHeaders, Reliable)
    \/ \E r \in Reqs : RateLimit(r, Reliable)
    \/ \E r \in Reqs : Validate(r, GateBodies)
    \/ \E r \in Reqs : TrackUsage(r, Reliable)
    \/ \E c \in QuotaPayments : Quiet /\ PaymentSuccess(c, Reliable)

SpecQuota == InitQuota /\ [][NextQuota]_vars


(* ------------------------------- claims ------------------------------- *)

\* the key a header value presents: what follows "Bearer ", or the value itself
Presented(h) ==
    IF Len(HeaderKey(h)) > 0 /\ HeaderKey(h)[1] = "Bearer " THEN Tail(HeaderKey(h)) ELSE HeaderKey(h)

\* the key records that hold exactly this key string
Holding(key) == {id \in DOMAIN api_keys : api_keys[id].key = key}

\* the per-minute thresholds the specification states
StatedThreshold(tier) ==
    IF tier = "pro" THEN 60 ELSE IF tier = "enterprise" THEN 1000 ELSE 10

\* the rows of a key's usage log no older than 60 seconds
RowsInWindow(id) ==
    SumRows(usage_logs[id], {t \in Ticks : (tick - t) * TickMs <= 60000})

Owner(id) == profiles[api_keys[id].user_id]

Answered(r) == req[r].pc = "done"

\* C1: a request that carries an active, under-quota, under-threshold key as
\* "Authorization: Bearer <key>" passes the rate check and reaches the validator,
\* as the same key sent bare in X-API-Key does.
C1_BearerReachesValidator ==
    [][\A r \in Reqs :
         (/\ req[r].pc = "rate"
          /\ req'[r].pc # "rate"
          /\ req[r].headers.authorization # NoString
          /\ req[r].headers.authorization[1] = "Bearer "
          /\ \E id \in Holding(Presented(req[r].headers)) :
               /\ api_keys[id].is_active
               /\ Owner(id).api_calls_count < Owner(id).api_calls_limit
               /\ RowsInWindow(id) < StatedThreshold(Owner(id).subscription_tier))
         => (req'[r].pc = "body" /\ req'[r].rateLimit.allowed)]_vars

\* C2: with the key found and the store answering, the rate check uses the stated
\* threshold of the owner's tier and the count of the key's rows in the trailing
\* 60 seconds: count >= threshold denies with remaining 0 (the request ends 429),
\* otherwise it allows with remaining = threshold - count.
C2_RateCheck ==
    [][\A r \in Reqs :
         (/\ req[r].pc = "rate"
          /\ req'[r].pc # "rate"
          /\ Holding(HeaderKey(req[r].headers)) # {})
         => \A id \in Holding(HeaderKey(req[r].headers)) :
              LET threshold == StatedThreshold(Owner(id).subscription_tier)
                  count == RowsInWindow(id)
                  rl == req'[r].rateLimit
              IN  /\ rl.limit = threshold
                  /\ count >= threshold =>
                       /\ ~rl.allowed /\ rl.remaining = 0
                       /\ req'[r].pc = "done" /\ req'[r].response.status = 429
                       /\ req'[r].response.xRemaining = 0
                  /\ count < threshold =>
                       /\ rl.allowed /\ rl.remaining = threshold - count
                       /\ req'[r].pc = "body"]_vars

\* C2 witness: threshold 10, 10 rows in the last minute, and a request denied 429
C2_Witness ==
    \E r \in Reqs :
        /\ Answered(r) /\ req[r].response.status = 429
        /\ req[r].rateLimit.limit = 10 /\ req[r].rateLimit.remaining = 0
        /\ RowsInWindow("k1") = 10

\* C3: a request whose key's owner has api_calls_count >= api_calls_limit is denied
\* by validateApiKey whatever the rate window holds, and the rate check is never
\* run for it.
C3_QuotaBeforeRate ==
    [][\A r \in Reqs :
         (/\ req[r].pc = "idle"
          /\ req'[r].pc # "idle"
          /\ \E id \in Holding(Presented(req'[r].headers)) :
               Owner(id).api_calls_count >= Owner(id).api_calls_limit)
         => /\ req'[r].pc = "done"
            /\ req'[r].response.status = 401
            /\ req'[r].rateLimit = NoRate
            /\ req'[r].track = NoCalls]_vars

\* C3 witness: a key at its limit exactly, denied for the quota while the rate
\* window is at its threshold
C3_Witness ==
    \E r \in Reqs :
        /\ Answered(r)
        /\ req[r].validation.error = "API limit exceeded. Please upgrade your plan."
        /\ Owner("k1").api_calls_count = Owner("k1").api_calls_limit
        /\ RowsInWindow("k1") = StatedThreshold(Owner("k1").subscription_tier)

\* C4: every quota error, the monthly limit reached as well as the per-minute rate
\* exceeded, is answered 429 with Retry-After.
C4_QuotaErrorIs429 ==
    \A r \in Reqs :
        (/\ Answered(r)
         /\ \/ req[r].response.error = "API limit exceeded. Please upgrade your plan."
            \/ req[r].response.code = "RATE_LIMIT_EXCEEDED")
        => (req[r].response.status = 429 /\ req[r].response.retryAfter # Undefined)

\* C5: key lookup fails closed: a key that no active record holds, or a lookup the
\* store fails, ends the request 401 INVALID_API_KEY before the rate check, the
\* validator and usage tracking.
C5_LookupFailsClosed ==
    \A r \in Reqs :
        (/\ req[r].pc # "idle"
         /\ HeaderKey(req[r].headers) # NoString
         /\ \/ req[r].validation.call \in {"error", "nodata", "throw"}
            \/ ~(\E id \in Holding(Presented(req[r].headers)) : api_keys[id].is_active))
        => /\ Answered(r)
           /\ ~req[r].validation.valid
           /\ req[r].response.status = 401
           /\ req[r].response.code = "INVALID_API_KEY"
           /\ req[r].rateLimit = NoRate
           /\ req[r].body = NoBody
           /\ req[r].track = NoCalls

\* C5 witness: a deactivated key and a failed lookup, both answered 401
C5_Witness ==
    \E r, q \in Reqs :
        /\ Answered(r) /\ Answered(q)
        /\ req[r].validation.call \in {"error", "throw"}
        /\ req[r].response.status = 401
        /\ Presented(req[q].headers) = api_keys["k2"].key
        /\ req[q].validation.call = "ok"
        /\ req[q].response.status = 401

\* C6: the rate check fails open: a store call of checkRateLimit that returns an
\* error, returns no data or throws yields allowed = true, never a 429.
C6_RateCheckFailsOpen ==
    \A r \in Reqs :
        (\E i \in 1..2 : req[r].rateLimit.calls[i] \in {"error", "nodata", "throw"})
        => (req[r].rateLimit.allowed /\ req[r].response.status # 429)

C8_TrackingFailureSwallowed ==
    \A r \in Reqs :
        req[r].track # NoCalls
        => /\ Answered(r)
           /\ req[r].response.status = 200
           /\ req[r].response.code = ""
           /\ req[r].response.result = RunValidator(req[r].body, ZeroIndex).result

\* C8 witness: a 200 after a tracking call that failed
C8_Witness ==
    \E r \in Reqs :
        /\ Answered(r) /\ req[r].response.status = 200
        /\ \E i \in 1..4 : req[r].track[i] \in {"error", "throw"}

\* C9: every request let through read a count below the threshold (and a lifetime
\* count below the limit), yet overlapping requests read before each other's
\* writes: the rows of a key in one window and the owner's lifetime count can pass
\* the threshold and the limit, by at most the number of overlapping requests
\* less one.
C9_OvershootBounded ==
    /\ \A r \in Reqs :
         req[r].pc \in {"body", "track"} \/ (Answered(r) /\ req[r].response.status = 200)
         => (req[r].rateLimit.allowed /\ req[r].rateLimit.remaining >= 1)
    /\ \A id \in KeyIds :
         /\ RowsInWindow(id) <= StatedThreshold(Owner(id).subscription_tier) + NumReq - 1
         /\ Owner(id).api_calls_count <= Owner(id).api_calls_limit + NumReq - 1

\* C9 witness: two requests of one key both answered 200, each let through on the
\* same count, one below the threshold, and the window now above the threshold
C9_Witness ==
    \E r, q \in Reqs :
        /\ r # q
        /\ Answered(r) /\ req[r].response.status = 200
        /\ Answered(q) /\ req[q].response.status = 200
        /\ req[r].validation.keyId = req[q].validation.keyId
        /\ req[r].rateLimit.remaining = 1 /\ req[q].rateLimit.remaining = 1
        /\ RowsInWindow(req[r].validation.keyId)
             > StatedThreshold(Owner(req[r].validation.keyId).subscription_tier)

\* C10: the result of a request (safe, score, issues, suggestions) depends on its
\* body alone: it is the result a fresh process gives, whatever requests were
\* handled before.
C10_ResultIndependentOfHistory ==
    \A r \in Reqs :
        (req[r].pc \in {"track", "done"} /\ req[r].response.status = 200)
        => req[r].response.result = RunValidator(req[r].body, ZeroIndex).result

\* a caption holds a match of an inappropriate-content pattern
HasInappropriate(caption) ==
    \E i \in 1..Len(caption) : Lower(caption[i]) \in AllInappropriate

\* C11: a request answered 200 whose caption holds a match of an inappropriate-content
\* pattern, checkHateSpeech not being false, reports safe = false and a score of at
\* most 70, whatever requests were handled before it.
C11_HateCaptionUnsafe ==
    \A r \in Reqs :
        (/\ req[r].pc \in {"track", "done"}
         /\ req[r].response.status = 200
         /\ HasInappropriate(req[r].body.caption)
         /\ req[r].body.options.checkHateSpeech # "false")
        => (~req[r].response.result.safe /\ req[r].response.result.score <= 70)

\* a request answered by the validator: 200, with its result
Validated(r) == req[r].pc \in {"track", "done"} /\ req[r].response.status = 200

\* the penalty the specification states for the check an issue reports
StatedPenalty(issue) ==
    CASE issue = "Potentially inappropriate content detected" -> 30
      [] issue = "Spam-like content detected" -> 20
      [] issue = "Excessive emoji usage detected" -> 10
      [] issue = "Too many hashtags in caption text" -> 10
      [] issue = "Potentially misleading claims detected" -> 25
      [] OTHER -> 0

\* C12: the score of a validated request is 100 less the penalties (30, 20, 10, 10,
\* 25) of the checks its issues report, and lies between 5 and 100, whatever the
\* caption, the option flags and the requests handled before.
C12_ScoreIsPenalised ==
    \A r \in Reqs :
        Validated(r)
        => LET res == req[r].response.result
           IN  /\ res.score = 100 - SumSeq([i \in 1..Len(res.issues) |-> StatedPenalty(res.issues[i])])
               /\ res.score \in 5..100

\* C12 witness: all five checks triggered, the score at its minimum of 5
C12_Witness ==
    \E r \in Reqs :
        /\ Validated(r)
        /\ Len(req[r].response.result.issues) = 5
        /\ req[r].response.result.score = 5

\* the check an issue reports was enabled by the options and triggered by the caption
IssueTriggered(issue, body) ==
    CASE issue = "Potentially inappropriate content detected" ->
           body.options.checkHateSpeech # "false" /\ HasInappropriate(body.caption)
      [] issue = "Spam-like content detected" ->
           body.options.checkSpam # "false" /\ SpamMatch(body.caption)
      [] issue = "Excessive emoji usage detected" ->
           body.options.checkSpam # "false" /\ EmojiCount(body.caption) > 15
      [] issue = "Too many hashtags in caption text" ->
           body.options.checkSpam # "false" /\ HashtagInCaption(body.caption) > 10
      [] issue = "Potentially misleading claims detected" ->
           body.options.checkCompliance # "false" /\ MisleadingMatch(body.caption)
      [] OTHER -> FALSE

\* C13: in the issues of a validated request no entry occurs twice, so each of the
\* five categories reports at most once however many of its patterns match, and
\* every entry reports a check that the options enabled and the caption triggered;
\* a category whose option is false adds no issue and no penalty.
C13_OneIssuePerCategory ==
    \A r \in Reqs :
        Validated(r)
        => LET res == req[r].response.result
           IN  /\ \A i, j \in 1..Len(res.issues) : res.issues[i] = res.issues[j] => i = j
               /\ \A i \in 1..Len(res.issues) : IssueTriggered(res.issues[i], req[r].body)
               /\ res.score = 100 - SumSeq([i \in 1..Len(res.issues) |-> StatedPenalty(res.issues[i])])

\* C13 witness: a caption with matches of two inappropriate-content patterns, three
\* words in all, and one issue
C13_Witness ==
    \E r \in Reqs :
        /\ Validated(r)
        /\ req[r].body.caption = <<"hate", "spam", "abuse">>
        /\ req[r].response.result.issues = <<"Potentially inappropriate content detected">>

\* C14: safe is false exactly when the issues report inappropriate content, a spam
\* phrase or a misleading claim; the emoji and hashtag findings leave safe true.
C14_SafeIffContentIssue ==
    \A r \in Reqs :
        Validated(r)
        => LET res == req[r].response.result
           IN  res.safe = ~(\E i \in 1..Len(res.issues) :
                               res.issues[i] \in {"Potentially inappropriate content detected",
                                                  "Spam-like content detected",
                                                  "Potentially misleading claims detected"})

\* C14 witness: safe = true with the emoji and the hashtag issue and a score of 80
C14_Witness ==
    \E r \in Reqs :
        /\ Validated(r)
        /\ req[r].response.result.safe
        /\ req[r].response.result.issues
             = <<"Excessive emoji usage detected", "Too many hashtags in caption text">>
        /\ req[r].response.result.score = 80

\* C15: a gate-allowed request with a well-formed body is answered 400
\* MISSING_CAPTION when its caption is empty or missing and 400 CAPTION_TOO_LONG when
\* its caption is longer than 2200 characters, in both cases with no result and the
\* patterns of the validator untouched; a caption of 1 to 2200 characters is passed
\* on to the validator.
C15_InputChecksFirst ==
    [][\A r \in Reqs :
         (req[r].pc = "body" /\ req'[r].pc # "body" /\ req'[r].body.json)
         => LET caption == req'[r].body.caption
                resp == req'[r].response
                rejected(code) == /\ req'[r].pc = "done"
                                  /\ resp.status = 400 /\ resp.code = code
                                  /\ resp.result = NoResult
                                  /\ lastIndex' = lastIndex
            IN  /\ caption = <<>> => rejected("MISSING_CAPTION")
                /\ CaptionLength(caption) > 2200 => rejected("CAPTION_TOO_LONG")
                /\ (caption # <<>> /\ CaptionLength(caption) <= 2200)
                     => resp.code \notin {"MISSING_CAPTION", "CAPTION_TOO_LONG"}
                /\ (CaptionLength(caption) = 2200 /\ req'[r].body.hashtags.iterable)
                     => (req'[r].pc = "track" /\ resp.status = 200)]_vars

\* C15 witness: a caption of 2201 characters with an inappropriate word, answered
\* 400 CAPTION_TOO_LONG
C15_Witness ==
    \E r \in Reqs :
        /\ Answered(r)
        /\ req[r].body.caption = <<"x2200", "hate">>
        /\ req[r].response.status = 400
        /\ req[r].response.code = "CAPTION_TOO_LONG"
        /\ req[r].response.result.issues = <<>>

\* a request the gate allowed whose body is an input error: malformed JSON, no
\* caption, or a caption longer than 2200 characters
InputError(r) ==
    /\ Answered(r)
    /\ req[r].rateLimit.allowed
    /\ \/ ~req[r].body.json
       \/ req[r].body.caption = <<>>
       \/ CaptionLength(req[r].body.caption) > 2200

\* C16: every input error is answered with a 4xx status and a machine-readable
\* code; a malformed JSON body is never answered 500 INTERNAL_ERROR.
C16_InputErrorIs4xx ==
    \A r \in Reqs :
        InputError(r)
        => /\ req[r].response.status \in 400..499
           /\ req[r].response.code \notin {"", "INTERNAL_ERROR"}

\* C17: optimizeHashtags defaults to false: a validated request gets hashtag
\* suggestions exactly when optimizeHashtags is true and its hashtag list is not
\* empty, so a request that leaves the option out gets none.
C17_OptimizeHashtagsOffByDefault ==
    \A r \in Reqs :
        Validated(r)
        => (req[r].response.result.suggestions.hasHashtags
              <=> (/\ req[r].body.options.optimizeHashtags = "true"
                   /\ req[r].body.hashtags.tags # <<>>))

\* C18: the list hashtag optimization returns has at most 30 entries, each in lower
\* case and starting with '#', and no tag twice, whatever the input list (mixed
\* case, with or without '#', with repeats).
C18_OptimizedHashtagsWellFormed ==
    \A r \in Reqs :
        (Validated(r) /\ req[r].response.result.suggestions.hasHashtags)
        => LET out == req[r].response.result.suggestions.hashtags
           IN  /\ Len(out) <= 30
               /\ \A i \in 1..Len(out) :
                    /\ out[i] # <<>> /\ out[i][1] = "#"
                    /\ \A k \in 1..Len(out[i]) : Lower(out[i][k]) = out[i][k]
               /\ \A i, j \in 1..Len(out) : out[i] = out[j] => i = j

\* no tag of the list matches a word of the caption
NoTagMatches(body) ==
    \A i \in 1..Len(body.hashtags.tags) :
        ~Relevant(body.hashtags.tags[i], CaptionWords(body.caption, 1))

\* C19: hashtagRelevance is 50 whenever no supplied hashtag matches a caption word:
\* for an empty hashtag list and for a list none of whose tags holds, or is held by,
\* a caption word.
C19_NoMatchRelevanceIs50 ==
    \A r \in Reqs :
        (Validated(r) /\ NoTagMatches(req[r].body))
        => req[r].response.result.hashtagRelevance = 50

\* the monthly cap the specification states for a tier
StatedCap(tier) ==
    IF tier = "pro" THEN 10000 ELSE IF tier = "enterprise" THEN 100000 ELSE 100

\* C20: after any sequence of signups and payment-success calls every profile's
\* api_calls_limit is the monthly cap of its subscription_tier: 100 for free, 10,000
\* for pro, 100,000 for enterprise.
C20_LimitMatchesTier ==
    \A u \in DOMAIN profiles :
        profiles[u].api_calls_limit = StatedCap(profiles[u].subscription_tier)

\* what the validate endpoint keeps in the external store
Store == <<profiles, api_keys, usage_logs>>

\* C21: a validate request that does not end in 200 leaves the external store
\* unchanged: no step of a request before its usage tracking writes, and the step
\* that answers 401, 429, 400 or 500 adds no usage-log row and changes neither the
\* key's usage_count and last_used nor the owner's api_calls_count.
C21_RejectedRequestsWriteNothing ==
    [][\A r \in Reqs :
         /\ (req'[r] # req[r] /\ req'[r].pc \in {"rate", "body", "track"}) => Store' = Store
         /\ (req[r].pc # "done" /\ req'[r].pc = "done" /\ req'[r].response.status # 200)
              => Store' = Store]_vars

\* C21 witness: two requests rejected, one with 429 or 401 and one with 400 or 500,
\* and the store as it was: the key never used, no row beyond those it started with
C21_Witness ==
    \E r, q \in Reqs :
        /\ Answered(r) /\ req[r].response.status \in {401, 429}
        /\ Answered(q) /\ req[q].response.status \in {400, 500}
        /\ \A id \in KeyIds :
             /\ api_keys[id].usage_count = 0
             /\ api_keys[id].last_used = Undefined
             /\ \A t \in Ticks : t > 0 => usage_logs[id][t] = 0

\* C22: with the requests handled strictly one after another and every usage write
\* succeeding, the rows of a key in the trailing 60 seconds, one per request
\* answered 200, never pass the per-minute threshold of the owner's tier, and a
\* request whose rate check finds the window at the threshold is answered 429.
C22_SequentialWindowBounded ==
    [][/\ \A id \in KeyIds :
            RowsInWindow(id)' <= StatedThreshold(Owner(id).subscription_tier)
       /\ \A r \in Reqs :
            (/\ req[r].pc = "rate" /\ req'[r].pc # "rate"
             /\ \E id \in KeyIds :
                  /\ api_keys[id].key = Presented(req[r].headers)
                  /\ RowsInWindow(id) >= StatedThreshold(Owner(id).subscription_tier))
            => (req'[r].pc = "done" /\ req'[r].response.status = 429)]_vars

\* C22 witness: a request answered 200 brought the window to the threshold, the
\* next request of the key was answered 429, and after the rows aged out the window
\* is empty again
C22_Witness ==
    \E r, q \in Reqs :
        /\ Answered(r) /\ req[r].response.status = 200 /\ req[r].rateLimit.remaining = 1
        /\ Answered(q) /\ req[q].response.status = 429
        /\ req[q].rateLimit.limit = StatedThreshold(Owner("k1").subscription_tier)
        /\ RowsInWindow("k1") = 0

\* C23: with validate requests and payment callbacks handled one at a time and
\* every usage write succeeding, api_calls_count never passes api_calls_limit in
\* any profile, and a request that carries any active key of a user whose count
\* has reached the limit is answered 401; a payment-success that goes through
\* resets the count to 0.
C23_CountWithinLimit ==
    [][/\ \A u \in DOMAIN profiles' :
            profiles'[u].api_calls_count <= profiles'[u].api_calls_limit
       /\ \A r \in Reqs :
            (/\ req[r].pc = "idle" /\ req'[r].pc # "idle"
             /\ \E id \in Holding(Presented(req'[r].headers)) :
                  /\ api_keys[id].is_active
                  /\ Owner(id).api_calls_count >= Owner(id).api_calls_limit)
            => (req'[r].pc = "done" /\ req'[r].response.status = 401)
       /\ (lastBilling' # lastBilling /\ lastBilling'.status = 200)
            => profiles'[lastBilling'.user].api_calls_count = 0]_vars

\* C23 witness: a request through one key took the count to the limit, a request
\* through the user's other key was then denied, and a payment-success reset the
\* count
C23_Witness ==
    \E r, q \in Reqs :
        /\ Answered(r) /\ req[r].response.status = 200
        /\ req[r].headers.xApiKey = <<"sk_", "a">>
        /\ Answered(q) /\ req[q].response.status = 401
        /\ req[q].headers.xApiKey = <<"sk_", "b">>
        /\ req[q].response.error = "API limit exceeded. Please upgrade your plan."
        /\ lastBilling.endpoint = "payment-success" /\ lastBilling.status = 200
        /\ profiles["u1"].api_calls_count = 0
        /\ profiles["u1"].api_calls_limit = 10000

\* C24: a payment-success call changes a profile only when the supplied signature
\* passes verification and orderId names a payment order created for the same
\* authenticated user with the same plan, and it marks a payment order paid only
\* when the profile update succeeded.
C24_OnlyVerifiedPayments ==
    [][(lastBilling'.endpoint = "payment-success" /\ lastBilling' # lastBilling) =>
         /\ profiles' # profiles =>
              /\ VerifyPaymentSignature(lastBilling'.signature)
              /\ lastBilling'.orderId \in OrderIds
              /\ payment_orders[lastBilling'.orderId].status = "created"
              /\ payment_orders[lastBilling'.orderId].user_id = lastBilling'.user
              /\ payment_orders[lastBilling'.orderId].plan = lastBilling'.plan
         /\ payment_orders' # payment_orders =>
              /\ lastBilling'.user \in DOMAIN profiles
              /\ profiles'[lastBilling'.user].subscription_status = "active"
              /\ profiles'[lastBilling'.user].api_calls_count = 0
              /\ profiles'[lastBilling'.user].subscription_tier =
                   SubscriptionTier(lastBilling'.plan)]_vars

\* the rows the key-creation endpoint added
Issued == DOMAIN api_keys \cap NewKeyIds

\* C25: a call of the key-creation endpoint adds a key only for a session token of
\* an account and a body with a name, and the key it adds starts with sk_, is the
\* one the response carries, and is stored active with usage_count 0 for the
\* session's user; with the store answering, a call without a session is answered
\* 401 and one with a session and a JSON body without a name 400; and the first
\* request that carries an issued key, bare or as a bearer token, while its owner is
\* under quota passes validateApiKey with that key record.
C25_IssuedKeysPassTheGate ==
    [][/\ lastKey' # lastKey =>
            /\ DOMAIN api_keys' # DOMAIN api_keys <=> lastKey'.status = 200
            /\ lastKey'.status = 200 =>
                 /\ lastKey'.token \in DOMAIN profiles /\ lastKey'.json /\ lastKey'.name # ""
                 /\ \E id \in DOMAIN api_keys' \ DOMAIN api_keys :
                      /\ api_keys'[id].key = lastKey'.key
                      /\ api_keys'[id].key[1] = "sk_"
                      /\ api_keys'[id].is_active
                      /\ api_keys'[id].usage_count = 0
                      /\ api_keys'[id].user_id = lastKey'.token
            /\ (supabaseConfigured /\ lastKey'.calls[1] \in {"ok", "none"}) =>
                 /\ lastKey'.token \notin DOMAIN profiles => lastKey'.status = 401
                 /\ (lastKey'.token \in DOMAIN profiles /\ lastKey'.json /\ lastKey'.name = "")
                      => lastKey'.status = 400
       /\ \A r \in Reqs :
            (/\ req[r].pc = "idle" /\ req'[r].pc # "idle"
             /\ \E id \in Issued :
                  /\ api_keys[id].key = Presented(req'[r].headers)
                  /\ api_keys[id].usage_count = 0
                  /\ Owner(id).api_calls_count < Owner(id).api_calls_limit)
            => /\ req'[r].pc = "rate"
               /\ req'[r].validation.valid
               /\ req'[r].validation.keyId \in Issued]_vars

\* C25 witness: the endpoint refused a call without a name, a key issued to an
\* account under quota was carried by a request as a bearer token and passed the
\* key validation, and a second request carried it bare and was answered 200
C25_Witness ==
    \E r, q \in Reqs, id \in Issued :
        /\ lastKey.status = 400
        /\ api_keys[id].key[1] = "sk_" /\ api_keys[id].user_id = "u2"
        /\ req[r].headers.authorization = <<"Bearer ">> \o api_keys[id].key
        /\ req[r].validation.valid /\ req[r].validation.keyId = id
        /\ req[q].headers.xApiKey = api_keys[id].key
        /\ Answered(q) /\ req[q].response.status = 200


====
